---- MODULE Spec2Model ----
(***************************************************************************)
(* Authentication core of Secure-Auth: login verification                  *)
(* (src/auth/login.rs), the password-reset token manager                   *)
(* (src/auth/reset.rs) and the 2FA enable/disable flows (src/process.rs),  *)
(* all working on one user store through get_user / update_user.           *)
(*                                                                         *)
(* Time is counted in ticks of 1/TicksPerMin minute, so that the           *)
(* truncation to whole minutes done by num_minutes() is visible.           *)
(***************************************************************************)
EXTENDS Integers, Sequences, FiniteSets, TLC

VARIABLES
    db,     \* the user store: email -> User
    now,    \* the wall clock (Utc::now()), in ticks
    last,   \* the call that has just returned: operation, inputs, result, port calls
    pc,     \* where the interactive shell stands
    uMem,   \* the shell's in-memory User (Option), as returned by login
    secret, \* the 2FA secret a confirmation loop is checking codes against (Option)
    resetEmail, \* the email a running password-reset flow was started for (Option)
    inflight    \* per operation: the concurrent call that has read the user and not yet written

vars == <<db, now, last, pc, uMem, secret, resetEmail, inflight>>
shell == <<pc, uMem, secret>>
others == <<resetEmail, inflight>>

(***************************************************************************)
(* Bounds of the model.  Calls are made at the instants of Instants only:  *)
(* right after an issuance (age 0 up to Margin ticks) and around the end   *)
(* of the validity window (Margin ticks before 15:00 up to Margin ticks    *)
(* after 16:00).                                                           *)
(***************************************************************************)
TicksPerMin == 2
Margin == 1

CODE_VALIDITY_MIN == 15

KnownEmails == {"a@b.test"}
Emails == KnownEmails \cup {"nobody@x.test"}
Passwords == {"Secret123", "wrong"}
Salts == {"salt1", "salt2"}
Tokens == {"token", "wrongtoken"}
Secrets == {"secretA", "secretB"}

Window == CODE_VALIDITY_MIN * TicksPerMin
Instants == (0 .. Margin) \cup ((Window - Margin) .. (Window + TicksPerMin + Margin))

(***************************************************************************)
(* Option<T>: None is the empty tuple, Some(x) the one-element tuple.      *)
(***************************************************************************)
None == <<>>
Some(x) == <<x>>
unwrap(o) == o[1]

(***************************************************************************)
(* utils: the password hashing port and the token generator.  hash is      *)
(* salted, so two digests of one password differ; verify_hash recomputes   *)
(* with the salt embedded in the digest.                                   *)
(***************************************************************************)
hash(plaintext, salt) == <<salt, plaintext>>
verify_hash(plaintext, digest) == hash(plaintext, digest[1]) = digest
gen_token(rnd) == rnd

(***************************************************************************)
(* chrono: a timestamp as an RFC 3339 text (whole minutes, the rest of the *)
(* minute, offset in minutes), its parse, and Duration::num_minutes, which *)
(* truncates towards zero.                                                 *)
(***************************************************************************)
to_rfc3339(t) == <<t \div TicksPerMin, t % TicksPerMin, 0>>
parse_from_rfc3339(s) == (s[1] - s[3]) * TicksPerMin + s[2]
\* num_minutes that counts a started minute as a whole one.
num_minutes_rounds_up(d) == (d + TicksPerMin - 1) \div TicksPerMin

num_minutes(d) == IF d >= 0 THEN d \div TicksPerMin ELSE -((-d) \div TicksPerMin)

(***************************************************************************)
(* db::models::User                                                        *)
(***************************************************************************)
User_new(email, password) ==
    [email |-> email, password |-> password, reset_token |-> None,
     reset_token_created_at |-> None, secret_2fa |-> None]
set_reset_token(u, token, t) ==
    [u EXCEPT !.reset_token = Some(token),
              !.reset_token_created_at = Some(to_rfc3339(t))]
set_password(u, digest) == [u EXCEPT !.password = digest]
set_secret_2fa(u, s) == [u EXCEPT !.secret_2fa = s]
is_2fa_enabled(u) == u.secret_2fa # None

(***************************************************************************)
(* The user repository port.  get_user fails for an unknown email and on a *)
(* store error; update_user fails on a store error and then writes         *)
(* nothing.  A successful update either writes the whole record ("whole")  *)
(* or leaves the stored value of every column whose new value is None      *)
(* ("skip_none", the behaviour noted at process.rs:224).                   *)
(***************************************************************************)
Ok(v) == [ok |-> TRUE, val |-> v]
Err == [ok |-> FALSE, val |-> None]

WriteModes == {"whole", "skip_none"}
StoreOutcomes == {"fail"} \cup WriteModes

get_user(store, email, storeOk) ==
    IF storeOk /\ email \in DOMAIN store THEN Ok(store[email]) ELSE Err

keep_none(old, new) == IF new = None THEN old ELSE new
changeset(old, u) ==
    [email |-> u.email, password |-> u.password,
     reset_token |-> keep_none(old.reset_token, u.reset_token),
     reset_token_created_at |->
         keep_none(old.reset_token_created_at, u.reset_token_created_at),
     secret_2fa |-> keep_none(old.secret_2fa, u.secret_2fa)]
update_user(store, u, outcome) ==
    IF outcome = "fail" \/ u.email \notin DOMAIN store
    THEN [ok |-> FALSE, store |-> store]
    ELSE IF outcome = "whole"
    THEN [ok |-> TRUE, store |-> [store EXCEPT ![u.email] = u]]
    ELSE [ok |-> TRUE, store |-> [store EXCEPT ![u.email] = changeset(@, u)]]

(***************************************************************************)
(* What a call returns, and the record of a finished call.                 *)
(***************************************************************************)
Result(kind, user) == [kind |-> kind, user |-> user]
Call(fn, arg, ok) == [fn |-> fn, arg |-> arg, ok |-> ok]
Return(res, store, calls) == [res |-> res, store |-> store, calls |-> calls]
Idle == [op |-> "none", email |-> "", arg |-> "", res |-> Result("none", None),
         calls |-> <<>>]
Done(op, email, arg, r) ==
    [op |-> op, email |-> email, arg |-> arg, res |-> r.res, calls |-> r.calls]
\* The record of a call, with the user its lookup read.
DoneRead(op, email, arg, r, read) ==
    [op |-> op, email |-> email, arg |-> arg, res |-> r.res, calls |-> r.calls,
     read |-> read]

(***************************************************************************)
(* auth::login::login                                                      *)
(***************************************************************************)
\* login without the hash on the failed-lookup path.
login_no_hash(store, email, password, storeOk, salt) ==
    LET u == get_user(store, email, storeOk) IN
    IF ~u.ok
    THEN Return(Result("LoginError", None), store, <<Call("get_user", email, FALSE)>>)
    ELSE IF verify_hash(password, u.val.password)
    THEN Return(Result("Ok", Some(u.val)), store,
                <<Call("get_user", email, TRUE), Call("verify_hash", password, TRUE)>>)
    ELSE Return(Result("LoginError", None), store,
                <<Call("get_user", email, TRUE), Call("verify_hash", password, FALSE)>>)

\* login that does not look at the outcome of verify_hash.
login_no_verify(store, email, password, storeOk, salt) ==
    LET u == get_user(store, email, storeOk) IN
    IF ~u.ok
    THEN Return(Result("LoginError", None), store,
                <<Call("get_user", email, FALSE), Call("hash", password, TRUE)>>)
    ELSE Return(Result("Ok", Some(u.val)), store,
                <<Call("get_user", email, TRUE),
                  Call("verify_hash", password, verify_hash(password, u.val.password))>>)

login(store, email, password, storeOk, salt) ==
    LET u == get_user(store, email, storeOk) IN
    IF ~u.ok
    THEN LET wasted == hash(password, salt) IN
         Return(Result("LoginError", None), store,
                <<Call("get_user", email, FALSE), Call("hash", wasted[2], TRUE)>>)
    ELSE IF verify_hash(password, u.val.password)
    THEN Return(Result("Ok", Some(u.val)), store,
                <<Call("get_user", email, TRUE), Call("verify_hash", password, TRUE)>>)
    ELSE Return(Result("LoginError", None), store,
                <<Call("get_user", email, TRUE), Call("verify_hash", password, FALSE)>>)

(***************************************************************************)
(* auth::reset::_generate_reset_token                                      *)
(***************************************************************************)
\* _generate_reset_token that ignores the result of update_user.
_generate_reset_token_ignores_update(store, email, rnd, storeOk, outcome, t) ==
    LET token == gen_token(rnd)
        u == get_user(store, email, storeOk)
    IN  IF ~u.ok
        THEN Return(Result("ResetError", None), store,
                    <<Call("gen_token", token, TRUE), Call("get_user", email, FALSE)>>)
        ELSE LET w == update_user(store, set_reset_token(u.val, token, t), outcome)
             IN  Return(Result("Ok", None), w.store,
                        <<Call("gen_token", token, TRUE), Call("get_user", email, TRUE),
                          Call("update_user", email, w.ok)>>)

\* _generate_reset_token that persists the user without the token.
_generate_reset_token_no_set(store, email, rnd, storeOk, outcome, t) ==
    LET token == gen_token(rnd)
        u == get_user(store, email, storeOk)
    IN  IF ~u.ok
        THEN Return(Result("ResetError", None), store,
                    <<Call("gen_token", token, TRUE), Call("get_user", email, FALSE)>>)
        ELSE LET w == update_user(store, u.val, outcome)
                 calls == <<Call("gen_token", token, TRUE), Call("get_user", email, TRUE),
                            Call("update_user", email, w.ok)>>
             IN  IF ~w.ok
                 THEN Return(Result("ResetError", None), w.store, calls)
                 ELSE Return(Result("Ok", None), w.store, calls)

\* _generate_reset_token that stores the token without its creation time.
_generate_reset_token_no_time(store, email, rnd, storeOk, outcome, t) ==
    LET token == gen_token(rnd)
        u == get_user(store, email, storeOk)
    IN  IF ~u.ok
        THEN Return(Result("ResetError", None), store,
                    <<Call("gen_token", token, TRUE), Call("get_user", email, FALSE)>>)
        ELSE LET w == update_user(store, [u.val EXCEPT !.reset_token = Some(token)],
                                  outcome)
                 calls == <<Call("gen_token", token, TRUE), Call("get_user", email, TRUE),
                            Call("update_user", email, w.ok)>>
             IN  IF ~w.ok
                 THEN Return(Result("ResetError", None), w.store, calls)
                 ELSE Return(Result("Ok", None), w.store, calls)

\* _generate_reset_token that keeps the creation time of a pending reset.
_generate_reset_token_keeps_time(store, email, rnd, storeOk, outcome, t) ==
    LET token == gen_token(rnd)
        u == get_user(store, email, storeOk)
    IN  IF ~u.ok
        THEN Return(Result("ResetError", None), store,
                    <<Call("gen_token", token, TRUE), Call("get_user", email, FALSE)>>)
        ELSE LET u1 == IF u.val.reset_token = None
                       THEN set_reset_token(u.val, token, t)
                       ELSE [u.val EXCEPT !.reset_token = Some(token)]
                 w == update_user(store, u1, outcome)
                 calls == <<Call("gen_token", token, TRUE), Call("get_user", email, TRUE),
                            Call("update_user", email, w.ok)>>
             IN  IF ~w.ok
                 THEN Return(Result("ResetError", None), w.store, calls)
                 ELSE Return(Result("Ok", None), w.store, calls)

_generate_reset_token(store, email, rnd, storeOk, outcome, t) ==
    LET token == gen_token(rnd)
        u == get_user(store, email, storeOk)
    IN  IF ~u.ok
        THEN Return(Result("ResetError", None), store,
                    <<Call("gen_token", token, TRUE), Call("get_user", email, FALSE)>>)
        ELSE LET w == update_user(store, set_reset_token(u.val, token, t), outcome)
                 calls == <<Call("gen_token", token, TRUE), Call("get_user", email, TRUE),
                            Call("update_user", email, w.ok)>>
             IN  IF ~w.ok
                 THEN Return(Result("ResetError", None), w.store, calls)
                 ELSE Return(Result("Ok", None), w.store, calls)

(***************************************************************************)
(* auth::reset::_change_password                                           *)
(***************************************************************************)
\* _change_password that persists the user without the new digest.
_change_password_no_set(store, email, new_passwd, storeOk, outcome, salt) ==
    LET u == get_user(store, email, storeOk) IN
    IF ~u.ok
    THEN Return(Result("ResetError", None), store, <<Call("get_user", email, FALSE)>>)
    ELSE LET w == update_user(store, u.val, outcome)
             calls == <<Call("get_user", email, TRUE), Call("hash", new_passwd, TRUE),
                        Call("update_user", email, w.ok)>>
         IN  IF ~w.ok
             THEN Return(Result("ResetError", None), w.store, calls)
             ELSE Return(Result("Ok", None), w.store, calls)

\* _change_password that also consumes the pending reset.
_change_password_clears_token(store, email, new_passwd, storeOk, outcome, salt) ==
    LET u == get_user(store, email, storeOk) IN
    IF ~u.ok
    THEN Return(Result("ResetError", None), store, <<Call("get_user", email, FALSE)>>)
    ELSE LET cleared == [u.val EXCEPT !.reset_token = None,
                                      !.reset_token_created_at = None]
             w == update_user(store, set_password(cleared, hash(new_passwd, salt)),
                              IF outcome = "fail" THEN "fail" ELSE "whole")
             calls == <<Call("get_user", email, TRUE), Call("hash", new_passwd, TRUE),
                        Call("update_user", email, w.ok)>>
         IN  IF ~w.ok
             THEN Return(Result("ResetError", None), w.store, calls)
             ELSE Return(Result("Ok", None), w.store, calls)

_change_password(store, email, new_passwd, storeOk, outcome, salt) ==
    LET u == get_user(store, email, storeOk) IN
    IF ~u.ok
    THEN Return(Result("ResetError", None), store, <<Call("get_user", email, FALSE)>>)
    ELSE LET w == update_user(store, set_password(u.val, hash(new_passwd, salt)), outcome)
             calls == <<Call("get_user", email, TRUE), Call("hash", new_passwd, TRUE),
                        Call("update_user", email, w.ok)>>
         IN  IF ~w.ok
             THEN Return(Result("ResetError", None), w.store, calls)
             ELSE Return(Result("Ok", None), w.store, calls)

(***************************************************************************)
(* The two halves of generate_reset_token and change_password as a         *)
(* concurrent caller runs them: the lookup (reset.rs:60-66, 93-97), and,   *)
(* later, the change of the user that was read and its write               *)
(* (reset.rs:69-75, 99-106).  NoneInFlight: no call is between its halves. *)
(***************************************************************************)
NoneInFlight == [gen |-> None, chg |-> None]
InFlight(email, arg, u) == [email |-> email, arg |-> arg, u |-> u]

\* The write half of generate_reset_token working on the user stored now.
_generate_reset_token_write_merges(store, u, token, outcome, t) ==
    LET w == update_user(store, set_reset_token(store[u.email], token, t), outcome)
        calls == <<Call("gen_token", token, TRUE), Call("get_user", u.email, TRUE),
                   Call("update_user", u.email, w.ok)>>
    IN  IF ~w.ok
        THEN Return(Result("ResetError", None), w.store, calls)
        ELSE Return(Result("Ok", None), w.store, calls)

_generate_reset_token_write(store, u, token, outcome, t) ==
    LET w == update_user(store, set_reset_token(u, token, t), outcome)
        calls == <<Call("gen_token", token, TRUE), Call("get_user", u.email, TRUE),
                   Call("update_user", u.email, w.ok)>>
    IN  IF ~w.ok
        THEN Return(Result("ResetError", None), w.store, calls)
        ELSE Return(Result("Ok", None), w.store, calls)

_change_password_write(store, u, new_passwd, outcome, salt) ==
    LET w == update_user(store, set_password(u, hash(new_passwd, salt)), outcome)
        calls == <<Call("get_user", u.email, TRUE), Call("hash", new_passwd, TRUE),
                   Call("update_user", u.email, w.ok)>>
    IN  IF ~w.ok
        THEN Return(Result("ResetError", None), w.store, calls)
        ELSE Return(Result("Ok", None), w.store, calls)

(***************************************************************************)
(* auth::reset::_check_token.  Unwrapping an absent creation timestamp     *)
(* aborts the process: result "Panic".                                     *)
(***************************************************************************)
\* _check_token with >= in place of > in the age test.
_check_token_ge(store, email, token, storeOk, t) ==
    LET u == get_user(store, email, storeOk) IN
    IF ~u.ok
    THEN Return(Result("ResetError", None), store, <<Call("get_user", email, FALSE)>>)
    ELSE LET calls == <<Call("get_user", email, TRUE)>> IN
         IF u.val.reset_token = None
         THEN Return(Result("ResetError", None), store, calls)
         ELSE IF u.val.reset_token_created_at = None
         THEN Return(Result("Panic", None), store, calls)
         ELSE LET token_created_at ==
                      parse_from_rfc3339(unwrap(u.val.reset_token_created_at))
                  now_ == parse_from_rfc3339(to_rfc3339(t))
              IN  IF num_minutes(now_ - token_created_at) >= CODE_VALIDITY_MIN
                  THEN Return(Result("ExpiredToken", None), store, calls)
                  ELSE IF unwrap(u.val.reset_token) # token
                  THEN Return(Result("TokenMismatch", None), store, calls)
                  ELSE Return(Result("Ok", None), store, calls)

\* _check_token without the test for a missing reset token: the first
\* unwrap of the absent value aborts.
_check_token_no_none_test(store, email, token, storeOk, t) ==
    LET u == get_user(store, email, storeOk) IN
    IF ~u.ok
    THEN Return(Result("ResetError", None), store, <<Call("get_user", email, FALSE)>>)
    ELSE LET calls == <<Call("get_user", email, TRUE)>> IN
         IF u.val.reset_token_created_at = None \/ u.val.reset_token = None
         THEN Return(Result("Panic", None), store, calls)
         ELSE LET token_created_at ==
                      parse_from_rfc3339(unwrap(u.val.reset_token_created_at))
                  now_ == parse_from_rfc3339(to_rfc3339(t))
              IN  IF num_minutes(now_ - token_created_at) > CODE_VALIDITY_MIN
                  THEN Return(Result("ExpiredToken", None), store, calls)
                  ELSE IF unwrap(u.val.reset_token) # token
                  THEN Return(Result("TokenMismatch", None), store, calls)
                  ELSE Return(Result("Ok", None), store, calls)

\* _check_token that consumes the pending reset when the token is accepted.
_check_token_consumes(store, email, token, storeOk, t) ==
    LET u == get_user(store, email, storeOk) IN
    IF ~u.ok
    THEN Return(Result("ResetError", None), store, <<Call("get_user", email, FALSE)>>)
    ELSE LET calls == <<Call("get_user", email, TRUE)>> IN
         IF u.val.reset_token = None
         THEN Return(Result("ResetError", None), store, calls)
         ELSE IF u.val.reset_token_created_at = None
         THEN Return(Result("Panic", None), store, calls)
         ELSE LET token_created_at ==
                      parse_from_rfc3339(unwrap(u.val.reset_token_created_at))
                  now_ == parse_from_rfc3339(to_rfc3339(t))
              IN  IF num_minutes(now_ - token_created_at) > CODE_VALIDITY_MIN
                  THEN Return(Result("ExpiredToken", None), store, calls)
                  ELSE IF unwrap(u.val.reset_token) # token
                  THEN Return(Result("TokenMismatch", None), store, calls)
                  ELSE Return(Result("Ok", None),
                              [store EXCEPT ![email] =
                                  [u.val EXCEPT !.reset_token = None,
                                                !.reset_token_created_at = None]],
                              calls)

\* _check_token that reports a failed lookup as LoginError.
_check_token_login_error(store, email, token, storeOk, t) ==
    LET u == get_user(store, email, storeOk) IN
    IF ~u.ok
    THEN Return(Result("LoginError", None), store, <<Call("get_user", email, FALSE)>>)
    ELSE LET calls == <<Call("get_user", email, TRUE)>> IN
         IF u.val.reset_token = None
         THEN Return(Result("ResetError", None), store, calls)
         ELSE IF u.val.reset_token_created_at = None
         THEN Return(Result("Panic", None), store, calls)
         ELSE LET token_created_at ==
                      parse_from_rfc3339(unwrap(u.val.reset_token_created_at))
                  now_ == parse_from_rfc3339(to_rfc3339(t))
              IN  IF num_minutes(now_ - token_created_at) > CODE_VALIDITY_MIN
                  THEN Return(Result("ExpiredToken", None), store, calls)
                  ELSE IF unwrap(u.val.reset_token) # token
                  THEN Return(Result("TokenMismatch", None), store, calls)
                  ELSE Return(Result("Ok", None), store, calls)

_check_token(store, email, token, storeOk, t) ==
    LET u == get_user(store, email, storeOk) IN
    IF ~u.ok
    THEN Return(Result("ResetError", None), store, <<Call("get_user", email, FALSE)>>)
    ELSE LET calls == <<Call("get_user", email, TRUE)>> IN
         IF u.val.reset_token = None
         THEN Return(Result("ResetError", None), store, calls)
         ELSE IF u.val.reset_token_created_at = None
         THEN Return(Result("Panic", None), store, calls)
         ELSE LET token_created_at ==
                      parse_from_rfc3339(unwrap(u.val.reset_token_created_at))
                  now_ == parse_from_rfc3339(to_rfc3339(t))
              IN  IF num_minutes(now_ - token_created_at) > CODE_VALIDITY_MIN
                  THEN Return(Result("ExpiredToken", None), store, calls)
                  ELSE IF unwrap(u.val.reset_token) # token
                  THEN Return(Result("TokenMismatch", None), store, calls)
                  ELSE Return(Result("Ok", None), store, calls)

(***************************************************************************)
(* auth::twofa, the one-time-code port: the code an authenticator app      *)
(* shows for a secret, and its check.                                      *)
(***************************************************************************)
generate_secret(rnd) == rnd
totp(s) == [otp_of |-> s]
check_code(s, auth_code) == auth_code = totp(s)
Codes == {totp(s) : s \in Secrets} \cup {totp("nothing")}

(***************************************************************************)
(* process.rs: one round of each confirmation loop, and the persisting     *)
(* tail of the enable and disable flows (new in-memory user, new store).   *)
(***************************************************************************)
\* confirm_2fa_code that accepts any code.
confirm_2fa_code_any(s, auth_code) == TRUE

\* confirm_2fa_code that accepts the code of any secret.
confirm_2fa_code_any_secret(s, auth_code) == auth_code \in {totp(x) : x \in Secrets}

confirm_2fa_code(s, auth_code) == check_code(s, auth_code)

\* confirm_identity_with_password that accepts any password.
confirm_identity_with_password_any(user_passwd_hash, passwd) == TRUE

confirm_identity_with_password(user_passwd_hash, passwd) ==
    verify_hash(passwd, user_passwd_hash)

Flow(user, store, ok) == [u |-> user, store |-> store, ok |-> ok]

\* _enable_2fa_process that keeps the secret in memory when persisting fails.
_enable_2fa_process_no_revert(store, user, s, outcome) ==
    LET u1 == set_secret_2fa(user, Some(s))
        w == update_user(store, u1, outcome)
    IN  Flow(u1, w.store, w.ok)

_enable_2fa_process(store, user, s, outcome) ==
    LET u1 == set_secret_2fa(user, Some(s))
        w == update_user(store, u1, outcome)
    IN  IF ~w.ok
        THEN Flow(set_secret_2fa(u1, None), w.store, FALSE)
        ELSE Flow(u1, w.store, TRUE)

\* _disable_2fa_process that leaves the secret absent in memory when persisting fails.
_disable_2fa_process_no_revert(store, user, s, outcome) ==
    LET u1 == set_secret_2fa(user, None)
        w == update_user(store, u1, outcome)
    IN  Flow(u1, w.store, w.ok)

_disable_2fa_process(store, user, s, outcome) ==
    LET u1 == set_secret_2fa(user, None)
        w == update_user(store, u1, outcome)
    IN  IF ~w.ok
        THEN Flow(set_secret_2fa(u1, Some(s)), w.store, FALSE)
        ELSE Flow(u1, w.store, TRUE)

(***************************************************************************)
(* auth::reset::_send_reset_token: the token it prints, or an abort when   *)
(* the lookup fails or no token is stored (both are unwrapped).            *)
(***************************************************************************)
_send_reset_token(store, email, storeOk) ==
    LET u == get_user(store, email, storeOk) IN
    IF ~u.ok \/ u.val.reset_token = None
    THEN [sent |-> FALSE, token |-> None]
    ELSE [sent |-> TRUE, token |-> u.val.reset_token]

(***************************************************************************)
(* process.rs, _reset_password_process: what the validation loop does with *)
(* the result of check_token, and the passwords that pass the policy of    *)
(* ask_for_password_with_policy_check (8 to 64 characters).                *)
(***************************************************************************)
\* The validation loop leaving on TokenMismatch as it does on Ok.
after_check_token_mismatch_breaks(kind) ==
    CASE kind \in {"Ok", "TokenMismatch"} -> "break"
      [] kind \in {"ExpiredToken", "ResetError"} -> "return"
      [] OTHER -> "panic"

after_check_token(kind) ==
    CASE kind = "Ok" -> "break"
      [] kind = "ExpiredToken" -> "return"
      [] kind = "TokenMismatch" -> "continue"
      [] kind = "ResetError" -> "return"
      [] OTHER -> "panic"

is_password_valid(p) == p \in {"Secret123"}
PolicyPasswords == {p \in Passwords : is_password_valid(p)}

Step(op, email, arg, kind, calls) ==
    [op |-> op, email |-> email, arg |-> arg, res |-> Result(kind, None),
     calls |-> calls]

(***************************************************************************)
(* The state after construction: every registered user has a digest of her *)
(* password, no pending reset and 2FA disabled; the shell shows the login  *)
(* screen.                                                                 *)
(***************************************************************************)
Init ==
    /\ \E salt \in Salts :
           db = [e \in KnownEmails |-> User_new(e, hash("Secret123", salt))]
    /\ now = 0
    /\ last = Idle
    /\ pc = "login_screen"
    /\ uMem = None
    /\ secret = None
    /\ resetEmail = None
    /\ inflight = NoneInFlight

(***************************************************************************)
(* The login screen: login_process, and the three calls of the reset       *)
(* token manager.                                                          *)
(***************************************************************************)
\* One round of login_process's loop: ask for the credentials, call login.
Login ==
    /\ pc = "login_screen"
    /\ \E email \in Emails, password \in Passwords, storeOk \in BOOLEAN, salt \in Salts :
        LET r == login(db, email, password, storeOk, salt) IN
        /\ db' = r.store
        /\ last' = Done("login", email, password, r)
        /\ IF r.res.kind # "Ok"
           THEN UNCHANGED shell
           ELSE /\ uMem' = r.res.user
                /\ IF is_2fa_enabled(unwrap(r.res.user))
                   THEN pc' = "login_2fa" /\ secret' = unwrap(r.res.user).secret_2fa
                   ELSE pc' = "profile" /\ secret' = None
        /\ UNCHANGED now
    /\ UNCHANGED others

\* One round of confirm_2fa_code, called by login_process.
LoginConfirm2fa ==
    /\ pc = "login_2fa"
    /\ \E auth_code \in Codes :
        IF confirm_2fa_code(unwrap(secret), auth_code)
        THEN /\ pc' = "profile"
             /\ secret' = None
             /\ last' = Step("login_process", unwrap(uMem).email, auth_code.otp_of,
                             "Granted", <<>>)
             /\ UNCHANGED uMem
        ELSE /\ last' = Step("login_process", unwrap(uMem).email, auth_code.otp_of,
                             "IncorrectCode", <<>>)
             /\ UNCHANGED shell
    /\ UNCHANGED <<db, now>>
    /\ UNCHANGED others

GenerateResetToken ==
    /\ pc = "login_screen"
    /\ \E email \in Emails, rnd \in Tokens, storeOk \in BOOLEAN, outcome \in StoreOutcomes :
        LET r == _generate_reset_token(db, email, rnd, storeOk, outcome, now) IN
        /\ db' = r.store
        /\ last' = DoneRead("generate_reset_token", email, rnd, r,
                             get_user(db, email, storeOk))
    /\ UNCHANGED <<now, shell>>
    /\ UNCHANGED others

ChangePassword ==
    /\ pc = "login_screen"
    /\ \E email \in Emails, new_passwd \in Passwords, storeOk \in BOOLEAN,
          outcome \in StoreOutcomes, salt \in Salts :
        LET r == _change_password(db, email, new_passwd, storeOk, outcome, salt) IN
        /\ db' = r.store
        /\ last' = Done("change_password", email, new_passwd, r)
    /\ UNCHANGED <<now, shell>>
    /\ UNCHANGED others

CheckToken ==
    /\ pc = "login_screen"
    /\ \E email \in Emails, token \in Tokens, storeOk \in BOOLEAN :
        LET r == _check_token(db, email, token, storeOk, now) IN
        /\ db' = r.store
        /\ last' = Done("check_token", email, token, r)
    /\ UNCHANGED <<now, shell>>
    /\ UNCHANGED others

(***************************************************************************)
(* The login screen, continued: _reset_password_process, from one prompt   *)
(* to the next.  An abort of the process (panic, unwrap of an absent       *)
(* value) leaves the shell in a position "abort_..." for good.             *)
(***************************************************************************)
\* Ask for the email, generate the token and send it.
ResetStart ==
    /\ pc = "login_screen"
    /\ \E email \in Emails, rnd \in Tokens, storeOk \in BOOLEAN,
          outcome \in StoreOutcomes, sendOk \in BOOLEAN :
        LET r == _generate_reset_token(db, email, rnd, storeOk, outcome, now)
            m == _send_reset_token(r.store, email, sendOk)
        IN  /\ db' = r.store
            /\ IF r.res.kind # "Ok"
               THEN /\ last' = Done("generate_reset_token", email, rnd, r)
                    /\ UNCHANGED <<pc, resetEmail>>
               ELSE /\ last' = [Done("generate_reset_token", email, rnd, r) EXCEPT
                                   !.calls = Append(@, Call("send_reset_token", email, m.sent))]
                    /\ pc' = IF m.sent THEN "reset_token" ELSE "abort_send"
                    /\ resetEmail' = Some(email)
    /\ UNCHANGED <<now, uMem, secret, inflight>>

\* One round of the validation loop; after a valid token the user is fetched.
ResetCheck ==
    /\ pc = "reset_token"
    /\ \E input_token \in Tokens, storeOk \in BOOLEAN, fetchOk \in BOOLEAN :
        LET email == unwrap(resetEmail)
            r == _check_token(db, email, input_token, storeOk, now)
            todo == after_check_token(r.res.kind)
            u == get_user(r.store, email, fetchOk)
        IN  /\ db' = r.store
            /\ last' = Done("check_token", email, input_token, r)
            /\ pc' = CASE todo = "continue" -> "reset_token"
                       [] todo = "return" -> "login_screen"
                       [] todo = "panic" ->
                            IF r.res.kind = "Panic" THEN "abort_unwrap"
                            ELSE "abort_unexpected_return"
                       [] OTHER ->
                            IF ~u.ok THEN "abort_get_user"
                            ELSE IF is_2fa_enabled(u.val) THEN "reset_2fa"
                            ELSE "reset_password"
            /\ secret' = IF todo = "break" /\ u.ok /\ is_2fa_enabled(u.val)
                         THEN u.val.secret_2fa ELSE None
            /\ resetEmail' = IF todo = "return" THEN None ELSE resetEmail
    /\ UNCHANGED <<now, uMem, inflight>>

\* One round of confirm_2fa_code, called by _reset_password_process.
ResetConfirm2fa ==
    /\ pc = "reset_2fa"
    /\ \E auth_code \in Codes :
        IF confirm_2fa_code(unwrap(secret), auth_code)
        THEN /\ pc' = "reset_password"
             /\ secret' = None
             /\ last' = Step("reset_password", unwrap(resetEmail), auth_code.otp_of,
                             "Confirmed", <<>>)
        ELSE /\ last' = Step("reset_password", unwrap(resetEmail), auth_code.otp_of,
                             "IncorrectCode", <<>>)
             /\ UNCHANGED <<pc, secret>>
    /\ UNCHANGED <<db, now, uMem, resetEmail, inflight>>

\* Ask for the new password and change it; the flow ends.
ResetChange ==
    /\ pc = "reset_password"
    /\ \E passwd \in PolicyPasswords, storeOk \in BOOLEAN, outcome \in StoreOutcomes,
          salt \in Salts :
        LET r == _change_password(db, unwrap(resetEmail), passwd, storeOk, outcome, salt)
        IN  /\ db' = r.store
            /\ last' = Done("change_password", unwrap(resetEmail), passwd, r)
    /\ pc' = "login_screen"
    /\ resetEmail' = None
    /\ UNCHANGED <<now, uMem, secret, inflight>>

(***************************************************************************)
(* The profile screen: the 2FA enable and disable flows, and logging out.  *)
(***************************************************************************)
\* EnableStart without the test of is_2fa_enabled.
EnableStart_always_confirms ==
    /\ pc = "profile"
    /\ last' = Step("enable_2fa", unwrap(uMem).email, "", "ConfirmIdentity", <<>>)
    /\ pc' = "enable_password"
    /\ UNCHANGED <<db, now, uMem, secret>>
    /\ UNCHANGED others

\* _enable_2fa_process up to its first prompt.
EnableStart ==
    /\ pc = "profile"
    /\ IF is_2fa_enabled(unwrap(uMem))
       THEN /\ last' = Step("enable_2fa", unwrap(uMem).email, "", "AlreadyEnabled", <<>>)
            /\ UNCHANGED pc
       ELSE /\ last' = Step("enable_2fa", unwrap(uMem).email, "", "ConfirmIdentity", <<>>)
            /\ pc' = "enable_password"
    /\ UNCHANGED <<db, now, uMem, secret>>
    /\ UNCHANGED others

\* One round of confirm_identity_with_password; on success the secret is generated.
EnablePassword ==
    /\ pc = "enable_password"
    /\ \E passwd \in Passwords, rnd \in Secrets :
        IF confirm_identity_with_password(unwrap(uMem).password, passwd)
        THEN /\ secret' = Some(generate_secret(rnd))
             /\ pc' = "enable_code"
             /\ last' = Step("enable_2fa", unwrap(uMem).email, passwd, "ConfirmSetup", <<>>)
        ELSE /\ last' = Step("enable_2fa", unwrap(uMem).email, passwd, "IncorrectPassword", <<>>)
             /\ UNCHANGED <<pc, secret>>
    /\ UNCHANGED <<db, now, uMem>>
    /\ UNCHANGED others

\* One round of confirm_2fa_code; on success the secret is set and persisted.
EnableCode ==
    /\ pc = "enable_code"
    /\ \E auth_code \in Codes, outcome \in StoreOutcomes :
        IF confirm_2fa_code(unwrap(secret), auth_code)
        THEN LET r == _enable_2fa_process(db, unwrap(uMem), unwrap(secret), outcome) IN
             /\ db' = r.store
             /\ uMem' = Some(r.u)
             /\ secret' = None
             /\ pc' = "profile"
             /\ last' = Step("enable_2fa", r.u.email, auth_code.otp_of,
                             IF r.ok THEN "Enabled" ELSE "Failed",
                             <<Call("update_user", r.u.email, r.ok)>>)
        ELSE /\ last' = Step("enable_2fa", unwrap(uMem).email, auth_code.otp_of,
                             "IncorrectCode", <<>>)
             /\ UNCHANGED <<db, shell>>
    /\ UNCHANGED now
    /\ UNCHANGED others

\* _disable_2fa_process up to its first prompt.
DisableStart ==
    /\ pc = "profile"
    /\ IF ~is_2fa_enabled(unwrap(uMem))
       THEN /\ last' = Step("disable_2fa", unwrap(uMem).email, "", "AlreadyDisabled", <<>>)
            /\ UNCHANGED pc
       ELSE /\ last' = Step("disable_2fa", unwrap(uMem).email, "", "ConfirmIdentity", <<>>)
            /\ pc' = "disable_password"
    /\ UNCHANGED <<db, now, uMem, secret>>
    /\ UNCHANGED others

DisablePassword ==
    /\ pc = "disable_password"
    /\ \E passwd \in Passwords :
        IF confirm_identity_with_password(unwrap(uMem).password, passwd)
        THEN /\ secret' = unwrap(uMem).secret_2fa
             /\ pc' = "disable_code"
             /\ last' = Step("disable_2fa", unwrap(uMem).email, passwd, "ConfirmCode", <<>>)
        ELSE /\ last' = Step("disable_2fa", unwrap(uMem).email, passwd, "IncorrectPassword", <<>>)
             /\ UNCHANGED <<pc, secret>>
    /\ UNCHANGED <<db, now, uMem>>
    /\ UNCHANGED others

DisableCode ==
    /\ pc = "disable_code"
    /\ \E auth_code \in Codes, outcome \in StoreOutcomes :
        IF confirm_2fa_code(unwrap(secret), auth_code)
        THEN LET r == _disable_2fa_process(db, unwrap(uMem), unwrap(secret), outcome) IN
             /\ db' = r.store
             /\ uMem' = Some(r.u)
             /\ secret' = None
             /\ pc' = "profile"
             /\ last' = Step("disable_2fa", r.u.email, auth_code.otp_of,
                             IF r.ok THEN "Disabled" ELSE "Failed",
                             <<Call("update_user", r.u.email, r.ok)>>)
        ELSE /\ last' = Step("disable_2fa", unwrap(uMem).email, auth_code.otp_of,
                             "IncorrectCode", <<>>)
             /\ UNCHANGED <<db, shell>>
    /\ UNCHANGED now
    /\ UNCHANGED others

\* The user leaves the profile screen; the in-memory user is dropped.
Logout ==
    /\ pc = "profile"
    /\ pc' = "login_screen"
    /\ uMem' = None
    /\ last' = Idle
    /\ UNCHANGED <<db, now, secret>>
    /\ UNCHANGED others

\* Time passes between calls: the clock moves to the next instant.
Tick ==
    /\ \E t \in Instants :
           /\ t > now
           /\ \A t2 \in Instants : t2 > now => t <= t2
           /\ now' = t
    /\ last' = Idle
    /\ UNCHANGED <<db, shell>>
    /\ UNCHANGED others

Next ==
    \/ Login
    \/ LoginConfirm2fa
    \/ GenerateResetToken
    \/ ChangePassword
    \/ CheckToken
    \/ EnableStart
    \/ EnablePassword
    \/ EnableCode
    \/ DisableStart
    \/ DisablePassword
    \/ DisableCode
    \/ Logout
    \/ Tick

Spec == Init /\ [][Next]_vars

(***************************************************************************)
(* The interactive shell alone: the reset token manager is reached through *)
(* _reset_password_process only.                                           *)
(***************************************************************************)
NextShell ==
    \/ Login
    \/ LoginConfirm2fa
    \/ ResetStart
    \/ ResetCheck
    \/ ResetConfirm2fa
    \/ ResetChange
    \/ EnableStart
    \/ EnablePassword
    \/ EnableCode
    \/ DisableStart
    \/ DisablePassword
    \/ DisableCode
    \/ Logout
    \/ Tick

SpecShell == Init /\ [][NextShell]_vars

(***************************************************************************)
(* Concurrent callers of the reset token manager: one runs                 *)
(* generate_reset_token, another change_password, each call in two steps,  *)
(* so that the steps of the two calls interleave.                          *)
(***************************************************************************)
RaceGenRead ==
    /\ inflight.gen = None
    /\ \E email \in Emails, rnd \in Tokens, storeOk \in BOOLEAN :
        LET u == get_user(db, email, storeOk) IN
        IF ~u.ok
        THEN /\ last' = Done("generate_reset_token", email, rnd,
                             _generate_reset_token(db, email, rnd, FALSE, "fail", now))
             /\ UNCHANGED inflight
        ELSE /\ inflight' = [inflight EXCEPT !.gen = Some(InFlight(email, gen_token(rnd), u.val))]
             /\ last' = Idle
    /\ UNCHANGED <<db, now, shell, resetEmail>>

RaceGenWrite ==
    /\ inflight.gen # None
    /\ \E outcome \in StoreOutcomes :
        LET c == unwrap(inflight.gen)
            r == _generate_reset_token_write(db, c.u, c.arg, outcome, now)
        IN  /\ db' = r.store
            /\ last' = DoneRead("generate_reset_token", c.email, c.arg, r,
                                [ok |-> TRUE, val |-> c.u, found |-> db[c.email]])
    /\ inflight' = [inflight EXCEPT !.gen = None]
    /\ UNCHANGED <<now, shell, resetEmail>>

RaceChangeRead ==
    /\ inflight.chg = None
    /\ \E email \in Emails, new_passwd \in Passwords, storeOk \in BOOLEAN :
        LET u == get_user(db, email, storeOk) IN
        IF ~u.ok
        THEN /\ last' = Done("change_password", email, new_passwd,
                             _change_password(db, email, new_passwd, FALSE, "fail", "salt1"))
             /\ UNCHANGED inflight
        ELSE /\ inflight' = [inflight EXCEPT !.chg = Some(InFlight(email, new_passwd, u.val))]
             /\ last' = Idle
    /\ UNCHANGED <<db, now, shell, resetEmail>>

RaceChangeWrite ==
    /\ inflight.chg # None
    /\ \E outcome \in StoreOutcomes, salt \in Salts :
        LET c == unwrap(inflight.chg)
            r == _change_password_write(db, c.u, c.arg, outcome, salt)
        IN  /\ db' = r.store
            /\ last' = DoneRead("change_password", c.email, c.arg, r,
                                [ok |-> TRUE, val |-> c.u, found |-> db[c.email]])
    /\ inflight' = [inflight EXCEPT !.chg = None]
    /\ UNCHANGED <<now, shell, resetEmail>>

\* Time passes while the calls are in flight (the instants right after the start).
RaceTick ==
    /\ now < Margin
    /\ now' = now + 1
    /\ last' = Idle
    /\ UNCHANGED <<db, shell, others>>

NextRace ==
    \/ RaceGenRead
    \/ RaceGenWrite
    \/ RaceChangeRead
    \/ RaceChangeWrite
    \/ RaceTick

SpecRace == Init /\ [][NextRace]_vars

(***************************************************************************)
(* What the record of the last call says about the ports it used.          *)
(***************************************************************************)
Called(l, fn, ok) == \E i \in DOMAIN l.calls : l.calls[i].fn = fn /\ l.calls[i].ok = ok
LookupFailed(l) == Called(l, "get_user", FALSE)
LookupOk(l) == Called(l, "get_user", TRUE)
RepoFailed(l) == LookupFailed(l) \/ Called(l, "update_user", FALSE)
LoginError == Result("LoginError", None)
ResetError == Result("ResetError", None)

(***************************************************************************)
(* C1: a login whose user lookup fails (unknown email, or a store error)   *)
(* returns LoginError, the very result of a known user's wrong password,   *)
(* and has called hash on the supplied password after the failed lookup,   *)
(* before returning.                                                       *)
(***************************************************************************)
C1_FailedLookupHashesAndLoginError ==
    last.op = "login" =>
        /\ last.email \notin KnownEmails => LookupFailed(last)
        /\ LookupFailed(last) =>
              /\ last.res = LoginError
              /\ \E i, j \in DOMAIN last.calls :
                    /\ i < j
                    /\ last.calls[i] = Call("get_user", last.email, FALSE)
                    /\ last.calls[j] = Call("hash", last.arg, TRUE)
        /\ Called(last, "verify_hash", FALSE) => last.res = LoginError

C1_Witness ==
    /\ last.op = "login"
    /\ last.email \notin KnownEmails
    /\ last.res = LoginError
    /\ Called(last, "hash", TRUE)

(***************************************************************************)
(* C2: a login of a known user (the lookup returned her) returns Ok with   *)
(* exactly the stored user when the password verifies against the stored   *)
(* digest, and LoginError when it does not.                                *)
(***************************************************************************)
C2_KnownUserLogin ==
    (last.op = "login" /\ LookupOk(last)) =>
        LET stored == db[last.email] IN
        IF verify_hash(last.arg, stored.password)
        THEN last.res = Result("Ok", Some(stored))
        ELSE last.res = LoginError

C2_Witness ==
    /\ last.op = "login"
    /\ last.res.kind = "Ok"
    /\ last.res.user = Some(db[last.email])
    /\ pc = "profile"

(***************************************************************************)
(* C3: when generate_reset_token or change_password fails because of the   *)
(* repository (get_user or update_user fails) the result is ResetError,    *)
(* the store is left as it was, and after a failed lookup update_user is   *)
(* not called.                                                             *)
(***************************************************************************)
C3_RepositoryFailureIsResetError ==
    [][ (last'.op \in {"generate_reset_token", "change_password"} /\ RepoFailed(last')) =>
            /\ last'.res = ResetError
            /\ db' = db
            /\ LookupFailed(last') =>
                  \A i \in DOMAIN last'.calls : last'.calls[i].fn # "update_user" ]_vars

C3_Witness ==
    /\ last.op = "generate_reset_token"
    /\ last.email \in KnownEmails
    /\ Called(last, "update_user", FALSE)
    /\ last.res = ResetError
    /\ db[last.email].reset_token = None

(***************************************************************************)
(* C4: for a known user, when update_user succeeds, generate_reset_token   *)
(* returns Ok, and get_user then shows the freshly generated, non-empty    *)
(* token with the time of the call as its creation time; the user's other  *)
(* fields are as before.                                                   *)
(***************************************************************************)
C4_TokenPersisted ==
    [][ last'.op = "generate_reset_token" =>
            /\ (LookupOk(last') /\ Called(last', "update_user", TRUE)) <=>
                   last'.res.kind = "Ok"
            /\ last'.res.kind = "Ok" =>
                  LET old == db[last'.email]
                      got == get_user(db', last'.email, TRUE).val
                  IN  /\ last'.calls[1] = Call("gen_token", last'.arg, TRUE)
                      /\ last'.arg # ""
                      /\ got.reset_token = Some(last'.arg)
                      /\ got.reset_token_created_at # None
                      /\ parse_from_rfc3339(unwrap(got.reset_token_created_at)) = now'
                      /\ got.email = old.email
                      /\ got.password = old.password
                      /\ got.secret_2fa = old.secret_2fa ]_vars

C4_Witness ==
    /\ last.op = "generate_reset_token"
    /\ last.res.kind = "Ok"
    /\ now > 0
    /\ db[last.email].reset_token = Some(last.arg)
    /\ parse_from_rfc3339(unwrap(db[last.email].reset_token_created_at)) = now

(***************************************************************************)
(* The pending reset of a stored user: is there one, and its age in ticks. *)
(***************************************************************************)
HasToken(store, e) == store[e].reset_token # None
AgeTicks(store, e, t) == t - parse_from_rfc3339(unwrap(store[e].reset_token_created_at))
Accepts(store, e, token, t) == _check_token(store, e, token, TRUE, t).res.kind = "Ok"

(***************************************************************************)
(* C5 as stated: for a known user with a pending reset token, check_token  *)
(* returns ExpiredToken whenever the token's age exceeds 15 minutes,       *)
(* TokenMismatch when the age is within 15 minutes and the tokens differ,  *)
(* and Ok exactly when the age is within 15 minutes and they are equal.    *)
(***************************************************************************)
C5_AsStated ==
    (last.op = "check_token" /\ LookupOk(last) /\ HasToken(db, last.email)) =>
        LET age == AgeTicks(db, last.email, now) IN
        IF age > CODE_VALIDITY_MIN * TicksPerMin
        THEN last.res.kind = "ExpiredToken"
        ELSE IF unwrap(db[last.email].reset_token) # last.arg
        THEN last.res.kind = "TokenMismatch"
        ELSE last.res.kind = "Ok"

(***************************************************************************)
(* C5, amended: for a known user with a pending reset token, check_token   *)
(* returns ExpiredToken whenever the token's age is 16 minutes or more     *)
(* (its age in whole minutes exceeds 15), whatever token is supplied;      *)
(* TokenMismatch when the age is less than 16 minutes and the supplied     *)
(* token differs from the stored one; Ok exactly when the age is less than *)
(* 16 minutes and the two tokens are equal.                                *)
(***************************************************************************)
C5_ExpiryThenMismatchThenOk ==
    (last.op = "check_token" /\ LookupOk(last) /\ HasToken(db, last.email)) =>
        LET age == AgeTicks(db, last.email, now) IN
        IF age >= (CODE_VALIDITY_MIN + 1) * TicksPerMin
        THEN last.res.kind = "ExpiredToken"
        ELSE IF unwrap(db[last.email].reset_token) # last.arg
        THEN last.res.kind = "TokenMismatch"
        ELSE last.res.kind = "Ok"

C5_Witness ==
    /\ last.op = "check_token"
    /\ LookupOk(last)
    /\ HasToken(db, last.email)
    /\ unwrap(db[last.email].reset_token) # last.arg
    /\ AgeTicks(db, last.email, now) >= (CODE_VALIDITY_MIN + 1) * TicksPerMin
    /\ last.res.kind = "ExpiredToken"

(***************************************************************************)
(* C6: check_token returns ResetError when the user lookup fails and when  *)
(* the user has no pending reset token, whatever token is supplied.        *)
(***************************************************************************)
C6_NoUserOrNoTokenIsResetError ==
    last.op = "check_token" =>
        /\ last.email \notin KnownEmails => LookupFailed(last)
        /\ LookupFailed(last) => last.res = ResetError
        /\ (LookupOk(last) /\ ~HasToken(db, last.email)) => last.res = ResetError

C6_Witness ==
    /\ last.op = "check_token"
    /\ LookupOk(last)
    /\ ~HasToken(db, last.email)
    /\ last.res = ResetError

(***************************************************************************)
(* C7: check_token leaves the store as it is; and a token that check_token *)
(* accepts is still accepted after any step other than a                   *)
(* generate_reset_token call, as long as its age stays within 15 minutes.  *)
(***************************************************************************)
C7_CheckDoesNotConsume ==
    [][ /\ last'.op = "check_token" => db' = db
        /\ \A e \in KnownEmails, token \in Tokens :
              ( /\ Accepts(db, e, token, now)
                /\ last'.op # "generate_reset_token"
                /\ HasToken(db', e)
                /\ AgeTicks(db', e, now') <= CODE_VALIDITY_MIN * TicksPerMin )
              => Accepts(db', e, token, now') ]_vars

C7_Witness ==
    /\ last.op = "check_token"
    /\ last.res.kind = "Ok"
    /\ db[last.email].reset_token = Some(last.arg)
    /\ AgeTicks(db, last.email, now) = CODE_VALIDITY_MIN * TicksPerMin

(***************************************************************************)
(* C8: after a successful change_password the stored digest verifies the   *)
(* new password and no longer verifies a different old one, so login with  *)
(* the new password returns Ok and login with the old one LoginError.      *)
(***************************************************************************)
C8_NewPasswordReplacesOld ==
    [][ (last'.op = "change_password" /\ last'.res.kind = "Ok") =>
            LET e == last'.email
                new == last'.arg
            IN  /\ verify_hash(new, db'[e].password)
                /\ \A salt \in Salts :
                      login(db', e, new, TRUE, salt).res = Result("Ok", Some(db'[e]))
                /\ \A old \in Passwords :
                      (old # new /\ verify_hash(old, db[e].password)) =>
                          /\ ~verify_hash(old, db'[e].password)
                          /\ \A salt \in Salts :
                                login(db', e, old, TRUE, salt).res = LoginError ]_vars

C8_Witness ==
    /\ last.op = "change_password"
    /\ last.res.kind = "Ok"
    /\ last.arg = "wrong"
    /\ verify_hash("wrong", db[last.email].password)
    /\ ~verify_hash("Secret123", db[last.email].password)

(***************************************************************************)
(* C9: change_password changes the password digest only: the stored reset  *)
(* token and its creation time are as before, so a token that check_token  *)
(* accepted before the change is accepted after it.                        *)
(***************************************************************************)
C9_ChangePasswordKeepsToken ==
    [][ last'.op = "change_password" =>
            \A e \in KnownEmails :
                /\ db'[e].reset_token = db[e].reset_token
                /\ db'[e].reset_token_created_at = db[e].reset_token_created_at
                /\ db'[e].secret_2fa = db[e].secret_2fa
                /\ db'[e].email = db[e].email
                /\ \A token \in Tokens :
                      Accepts(db, e, token, now) => Accepts(db', e, token, now') ]_vars

C9_Witness ==
    /\ last.op = "change_password"
    /\ last.res.kind = "Ok"
    /\ HasToken(db, last.email)
    /\ Accepts(db, last.email, unwrap(db[last.email].reset_token), now)

(***************************************************************************)
(* C10: every stored user, and the in-memory user, has reset_token and     *)
(* reset_token_created_at both present or both absent, and check_token     *)
(* never aborts on the unwrap of the creation time.                        *)
(***************************************************************************)
Paired(usr) == (usr.reset_token = None) <=> (usr.reset_token_created_at = None)

C10_TokenAndTimePaired ==
    /\ \A e \in DOMAIN db : Paired(db[e])
    /\ uMem # None => Paired(unwrap(uMem))
    /\ last.res.kind # "Panic"

C10_Witness ==
    /\ last.op = "check_token"
    /\ last.res.kind = "Ok"
    /\ is_2fa_enabled(db[last.email])
    /\ HasToken(db, last.email)

(***************************************************************************)
(* The positions of the shell behind the login, and whether a code entered *)
(* at a prompt is the one-time code of a secret.                           *)
(***************************************************************************)
ProfilePcs == {"profile", "enable_password", "enable_code", "disable_password",
               "disable_code"}
TwoFaOps == {"enable_2fa", "disable_2fa"}
ValidCode(entered, s) == s # None /\ check_code(unwrap(s), [otp_of |-> entered])

(***************************************************************************)
(* C11: enabling 2FA for a user whose secret is present, and disabling it  *)
(* for a user whose secret is absent, are no-ops: no confirmation is       *)
(* requested (the shell stays on the profile screen), update_user is not   *)
(* called, and the in-memory user and the store are unchanged.             *)
(***************************************************************************)
C11_NoOpWhenAlreadyThere ==
    [][ ( /\ pc = "profile"
          /\ last'.op \in TwoFaOps
          /\ (last'.op = "enable_2fa") = is_2fa_enabled(unwrap(uMem)) )
        =>  /\ pc' = "profile"
            /\ last'.res.kind \in {"AlreadyEnabled", "AlreadyDisabled"}
            /\ last'.calls = <<>>
            /\ uMem' = uMem
            /\ secret' = secret
            /\ db' = db ]_vars

C11_Witness ==
    /\ pc = "profile"
    /\ last.op = "enable_2fa"
    /\ last.res.kind = "AlreadyEnabled"
    /\ is_2fa_enabled(unwrap(uMem))
    /\ is_2fa_enabled(db[last.email])

(***************************************************************************)
(* C12: for a user with 2FA disabled, once the password and the code are   *)
(* confirmed, enable ends, when update_user succeeds, with the in-memory   *)
(* user holding the newly generated non-empty secret and that secret       *)
(* stored; when update_user fails, with the in-memory secret absent and    *)
(* the store unchanged.                                                    *)
(***************************************************************************)
C12_EnableOutcome ==
    [][ (pc = "enable_code" /\ pc' = "profile") =>
            LET old == unwrap(uMem)
                new == unwrap(uMem')
            IN  /\ ~is_2fa_enabled(old)
                /\ last'.op = "enable_2fa"
                /\ Len(last'.calls) = 1
                /\ last'.calls[1].fn = "update_user"
                /\ IF last'.calls[1].ok
                   THEN /\ secret # None
                        /\ unwrap(secret) # ""
                        /\ new.secret_2fa = secret
                        /\ is_2fa_enabled(new)
                        /\ db'[old.email].secret_2fa = secret
                   ELSE /\ new.secret_2fa = None
                        /\ ~is_2fa_enabled(new)
                        /\ db' = db ]_vars

C12_Witness ==
    /\ pc = "profile"
    /\ last.op = "enable_2fa"
    /\ Called(last, "update_user", FALSE)
    /\ ~is_2fa_enabled(unwrap(uMem))
    /\ ~is_2fa_enabled(db[last.email])

(***************************************************************************)
(* C13 as stated: for a user with 2FA enabled, once the password and the   *)
(* code are confirmed, disable ends, when update_user succeeds, with the   *)
(* in-memory secret absent and the stored secret cleared; when update_user *)
(* fails, with the in-memory secret restored to the secret held before.    *)
(***************************************************************************)
C13_AsStated ==
    [][ (pc = "disable_code" /\ pc' = "profile") =>
            LET old == unwrap(uMem)
                new == unwrap(uMem')
            IN  IF Called(last', "update_user", TRUE)
                THEN /\ new.secret_2fa = None
                     /\ db'[old.email].secret_2fa = None
                ELSE /\ new.secret_2fa = old.secret_2fa
                     /\ is_2fa_enabled(new) ]_vars

(***************************************************************************)
(* C14: in the enable and the disable flow the in-memory user is changed   *)
(* and update_user is called only at the code prompt, on a code valid for  *)
(* the relevant secret (the new one for enable, the user's current one for *)
(* disable); the code prompt is reached only from the password prompt, on  *)
(* a password that verifies against the user's digest; a wrong password or *)
(* a wrong code leaves the shell at its prompt and changes nothing.        *)
(***************************************************************************)
C14_PasswordThenCodeThenMutation ==
    [][ /\ (pc' = "enable_code" /\ pc # "enable_code") =>
              /\ pc = "enable_password"
              /\ verify_hash(last'.arg, unwrap(uMem).password)
              /\ secret' # None
        /\ (pc' = "disable_code" /\ pc # "disable_code") =>
              /\ pc = "disable_password"
              /\ verify_hash(last'.arg, unwrap(uMem).password)
              /\ secret' = unwrap(uMem).secret_2fa
        /\ (last'.op \in TwoFaOps /\ (uMem' # uMem \/ db' # db \/ last'.calls # <<>>)) =>
              /\ pc \in {"enable_code", "disable_code"}
              /\ ValidCode(last'.arg, secret)
              /\ pc = "disable_code" => secret = unwrap(uMem).secret_2fa
        /\ ( /\ pc \in {"enable_password", "disable_password"}
             /\ last'.op \in TwoFaOps
             /\ ~verify_hash(last'.arg, unwrap(uMem).password) )
           => (pc' = pc /\ uMem' = uMem /\ db' = db /\ last'.calls = <<>>)
        /\ ( /\ pc \in {"enable_code", "disable_code"}
             /\ last'.op \in TwoFaOps
             /\ ~ValidCode(last'.arg, secret) )
           => (pc' = pc /\ uMem' = uMem /\ db' = db /\ last'.calls = <<>>) ]_vars

C14_Witness ==
    /\ pc = "profile"
    /\ last.op = "disable_2fa"
    /\ Called(last, "update_user", TRUE)
    /\ last.arg \in Secrets
    /\ ~is_2fa_enabled(unwrap(uMem))

(***************************************************************************)
(* C15: login_process hands a user to the profile screen only when login   *)
(* returned Ok for the entered credentials and that user has 2FA disabled, *)
(* or when a code valid for that user's secret was accepted after such a   *)
(* login; a failed login or a wrong code leaves the shell at its prompt    *)
(* with no user.                                                           *)
(***************************************************************************)
C15_AccessOnlyAfterLoginAndCode ==
    [][ /\ (pc' = "profile" /\ pc \notin ProfilePcs) =>
              IF pc = "login_screen"
              THEN /\ last'.op = "login"
                   /\ last'.res.kind = "Ok"
                   /\ verify_hash(last'.arg, db[last'.email].password)
                   /\ uMem' = Some(db[last'.email])
                   /\ ~is_2fa_enabled(unwrap(uMem'))
              ELSE /\ pc = "login_2fa"
                   /\ uMem' = uMem
                   /\ is_2fa_enabled(unwrap(uMem))
                   /\ ValidCode(last'.arg, unwrap(uMem).secret_2fa)
        /\ (pc' = "login_2fa" /\ pc # "login_2fa") =>
              /\ pc = "login_screen"
              /\ last'.op = "login"
              /\ last'.res.kind = "Ok"
              /\ verify_hash(last'.arg, db[last'.email].password)
              /\ uMem' = Some(db[last'.email])
              /\ is_2fa_enabled(unwrap(uMem'))
        /\ (last'.op = "login" /\ last'.res.kind # "Ok") =>
              (pc' = "login_screen" /\ uMem' = None)
        /\ ( /\ pc = "login_2fa"
             /\ last'.op = "login_process"
             /\ ~ValidCode(last'.arg, unwrap(uMem).secret_2fa) )
           => (pc' = "login_2fa" /\ uMem' = uMem) ]_vars

C15_Witness ==
    /\ pc = "profile"
    /\ last.op = "login_process"
    /\ last.res.kind = "Granted"
    /\ is_2fa_enabled(unwrap(uMem))
    /\ ValidCode(last.arg, unwrap(uMem).secret_2fa)

(***************************************************************************)
(* C16: in the password-reset flow send_reset_token is called only after   *)
(* generate_reset_token returned Ok, and a failed issuance ends the flow;  *)
(* change_password is called only at the new-password prompt, which is     *)
(* reached only after a check_token call of the same flow returned Ok      *)
(* (directly, or through the 2FA prompt); TokenMismatch leads to another   *)
(* validation attempt; ExpiredToken and ResetError end the flow; and no    *)
(* stored password changes except by the change_password call of a flow.   *)
(***************************************************************************)
C16_IssueDeliverValidateChange ==
    [][ /\ \A i \in DOMAIN last'.calls :
              last'.calls[i].fn = "send_reset_token" =>
                  /\ last'.op = "generate_reset_token"
                  /\ last'.res.kind = "Ok"
                  /\ i = Len(last'.calls)
                  /\ last'.calls[i - 1] = Call("update_user", last'.email, TRUE)
        /\ (last'.op = "generate_reset_token" /\ last'.res.kind # "Ok") =>
              /\ pc' = "login_screen"
              /\ resetEmail' = None
              /\ ~Called(last', "send_reset_token", TRUE)
              /\ ~Called(last', "send_reset_token", FALSE)
        /\ (pc' = "reset_token" /\ pc # "reset_token") =>
              /\ last'.op = "generate_reset_token"
              /\ last'.res.kind = "Ok"
              /\ resetEmail' = Some(last'.email)
        /\ (pc' \in {"reset_2fa", "reset_password"} /\ pc \notin {"reset_2fa", "reset_password"}) =>
              /\ pc = "reset_token"
              /\ last'.op = "check_token"
              /\ last'.res.kind = "Ok"
              /\ last'.email = unwrap(resetEmail)
              /\ resetEmail' = resetEmail
        /\ (pc' = "reset_password" /\ pc = "reset_2fa") => resetEmail' = resetEmail
        /\ last'.op = "change_password" =>
              /\ pc = "reset_password"
              /\ last'.email = unwrap(resetEmail)
        /\ (pc = "reset_token" /\ last'.op = "check_token") =>
              /\ last'.email = unwrap(resetEmail)
              /\ last'.res.kind = "TokenMismatch" =>
                    (pc' = "reset_token" /\ resetEmail' = resetEmail /\ db' = db)
              /\ last'.res.kind \in {"ExpiredToken", "ResetError"} =>
                    (pc' = "login_screen" /\ resetEmail' = None /\ db' = db)
        /\ (\E e \in KnownEmails : db'[e].password # db[e].password) =>
              last'.op = "change_password" ]_vars

C16_Witness ==
    /\ pc = "login_screen"
    /\ last.op = "change_password"
    /\ last.res.kind = "Ok"
    /\ HasToken(db, last.email)
    /\ resetEmail = None

(***************************************************************************)
(* C20: check_token returns only Ok, ResetError, ExpiredToken or           *)
(* TokenMismatch, so the password-reset flow never takes the catch-all     *)
(* branch that aborts with "Unexpected return value.".                     *)
(***************************************************************************)
C20_CatchAllUnreachable ==
    /\ last.op = "check_token" =>
          last.res.kind \in {"Ok", "ResetError", "ExpiredToken", "TokenMismatch"}
    /\ pc # "abort_unexpected_return"

C20_Witness ==
    /\ last.op = "check_token"
    /\ last.res = ResetError
    /\ last.email \in KnownEmails
    /\ HasToken(db, last.email)
    /\ pc = "login_screen"

(***************************************************************************)
(* C17: check_token compares the token's age in whole minutes, truncated,  *)
(* with 15, strictly: a correct token aged at least 15 and less than 16    *)
(* minutes is accepted, and ExpiredToken is returned exactly from an age   *)
(* of 16 full minutes on.                                                  *)
(***************************************************************************)
C17_AgeTruncatedToMinutes ==
    (last.op = "check_token" /\ LookupOk(last) /\ HasToken(db, last.email)) =>
        LET age == AgeTicks(db, last.email, now)
            correct == db[last.email].reset_token = Some(last.arg)
        IN  /\ (last.res.kind = "ExpiredToken") = (age \div TicksPerMin > CODE_VALIDITY_MIN)
            /\ (last.res.kind = "ExpiredToken") =
                   (age >= (CODE_VALIDITY_MIN + 1) * TicksPerMin)
            /\ ( /\ correct
                 /\ age >= CODE_VALIDITY_MIN * TicksPerMin
                 /\ age < (CODE_VALIDITY_MIN + 1) * TicksPerMin )
               => last.res.kind = "Ok"

C17_Witness ==
    /\ last.op = "check_token"
    /\ last.res.kind = "Ok"
    /\ LookupOk(last)
    /\ HasToken(db, last.email)
    /\ AgeTicks(db, last.email, now) > CODE_VALIDITY_MIN * TicksPerMin
    /\ AgeTicks(db, last.email, now) < (CODE_VALIDITY_MIN + 1) * TicksPerMin

(***************************************************************************)
(* C18: a successful generate_reset_token for a user who has a pending     *)
(* reset overwrites it: from then on, and for as long as the new token is  *)
(* unexpired, check_token accepts the new token and answers TokenMismatch  *)
(* to the previous one (when it differs); the expiry is counted from the   *)
(* second issuance, whatever the age of the first token was.  The answers  *)
(* are those check_token gives on the store left by the call, at each age  *)
(* d of Instants.                                                          *)
(***************************************************************************)
Answer(store, e, token, t) == _check_token(store, e, token, TRUE, t).res.kind

C18_ReissueOverwrites ==
    [][ ( /\ last'.op = "generate_reset_token"
          /\ last'.res.kind = "Ok"
          /\ HasToken(db, last'.email) )
        =>  LET e == last'.email
                old == unwrap(db[e].reset_token)
                new == last'.arg
            IN  /\ db'[e].reset_token = Some(new)
                /\ AgeTicks(db', e, now') = 0
                /\ \A d \in Instants :
                      IF d < (CODE_VALIDITY_MIN + 1) * TicksPerMin
                      THEN /\ Answer(db', e, new, now' + d) = "Ok"
                           /\ old # new => Answer(db', e, old, now' + d) = "TokenMismatch"
                      ELSE /\ Answer(db', e, new, now' + d) = "ExpiredToken"
                           /\ Answer(db', e, old, now' + d) = "ExpiredToken" ]_vars

C18_Witness ==
    /\ last.op = "generate_reset_token"
    /\ last.res.kind = "Ok"
    /\ last.read.ok
    /\ last.read.val.reset_token # None
    /\ last.read.val.reset_token # Some(last.arg)
    /\ now - parse_from_rfc3339(unwrap(last.read.val.reset_token_created_at))
           >= (CODE_VALIDITY_MIN + 1) * TicksPerMin
    /\ Answer(db, last.email, last.arg, now) = "Ok"
    /\ Answer(db, last.email, unwrap(last.read.val.reset_token), now) = "TokenMismatch"

(***************************************************************************)
(* C19: generate_reset_token and change_password write back the user they  *)
(* read, with one part changed, and return Ok whenever update_user         *)
(* succeeds, whatever was stored in between: after a successful write of   *)
(* generate_reset_token the stored password is the one that call read, and *)
(* after a successful write of change_password the stored reset token is   *)
(* the one that call read (or, when it read none and the store skips       *)
(* absent columns, the stored one).  So when both calls read before either *)
(* writes, both return Ok and the first write is lost.                     *)
(***************************************************************************)
C19_WritesBackWhatWasRead ==
    [][ /\ (inflight.gen # None /\ inflight'.gen = None) =>
              LET c == unwrap(inflight.gen) IN
              /\ last'.op = "generate_reset_token"
              /\ (last'.res.kind = "Ok") = Called(last', "update_user", TRUE)
              /\ last'.res.kind = "Ok" =>
                    /\ db'[c.email].reset_token = Some(c.arg)
                    /\ db'[c.email].password = c.u.password
              /\ last'.res.kind # "Ok" => db' = db
        /\ (inflight.chg # None /\ inflight'.chg = None) =>
              LET c == unwrap(inflight.chg) IN
              /\ last'.op = "change_password"
              /\ (last'.res.kind = "Ok") = Called(last', "update_user", TRUE)
              /\ last'.res.kind = "Ok" =>
                    /\ verify_hash(c.arg, db'[c.email].password)
                    /\ db'[c.email].reset_token \in
                           {c.u.reset_token,
                            keep_none(db[c.email].reset_token, c.u.reset_token)}
              /\ last'.res.kind # "Ok" => db' = db ]_vars

\* Both calls have returned Ok, and the password set by change_password is gone.
C19_Witness ==
    /\ inflight = NoneInFlight
    /\ last.op = "generate_reset_token"
    /\ last.res.kind = "Ok"
    /\ last.read.found.password # last.read.val.password
    /\ last.read.found.reset_token = last.read.val.reset_token
    /\ db[last.email].password = last.read.val.password
    /\ db[last.email].reset_token = Some(last.arg)

(***************************************************************************)
(* C21: in the password-reset flow, when the user fetched after a valid    *)
(* token has 2FA enabled, the flow asks for a code of that user's secret   *)
(* and reaches the new-password prompt, where change_password is called,   *)
(* only on a valid code; when 2FA is disabled it goes to the new-password  *)
(* prompt at once, with no code asked.                                     *)
(***************************************************************************)
AbortPcs == {"abort_send", "abort_get_user", "abort_unwrap", "abort_unexpected_return"}

C21_ResetAsksCodeWhenEnabled ==
    [][ /\ ( /\ pc = "reset_token"
             /\ last'.op = "check_token"
             /\ last'.res.kind = "Ok"
             /\ pc' \notin AbortPcs )
           => LET fetched == db'[unwrap(resetEmail)] IN
              IF is_2fa_enabled(fetched)
              THEN pc' = "reset_2fa" /\ secret' = fetched.secret_2fa
              ELSE pc' = "reset_password" /\ secret' = None
        /\ pc = "reset_2fa" =>
              /\ secret = db[unwrap(resetEmail)].secret_2fa
              /\ secret # None
              /\ last'.op # "change_password"
              /\ db' = db
              /\ IF last'.op = "reset_password" /\ ValidCode(last'.arg, secret)
                 THEN pc' = "reset_password"
                 ELSE pc' = "reset_2fa"
        /\ (pc' = "reset_password" /\ pc # "reset_password") =>
              IF is_2fa_enabled(db[unwrap(resetEmail)])
              THEN /\ pc = "reset_2fa"
                   /\ ValidCode(last'.arg, db[unwrap(resetEmail)].secret_2fa)
              ELSE pc = "reset_token"
        /\ last'.op = "change_password" => pc = "reset_password" ]_vars

C21_Witness ==
    /\ pc = "reset_password"
    /\ last.op = "reset_password"
    /\ last.res.kind = "Confirmed"
    /\ is_2fa_enabled(db[unwrap(resetEmail)])
    /\ ValidCode(last.arg, db[unwrap(resetEmail)].secret_2fa)

(***************************************************************************)
(* C22: when update_user applies the whole user record or nothing, every   *)
(* step of the enable and the disable flow (the no-op return, a prompt,    *)
(* the return after success or after a persistence failure) that starts    *)
(* with the in-memory 2FA secret equal to the stored one ends with them    *)
(* equal.                                                                  *)
(***************************************************************************)
AppliesWholeOrNothing ==
    IF Called(last', "update_user", TRUE)
    THEN db' = [db EXCEPT ![last'.email] =
                   set_secret_2fa(unwrap(uMem),
                                  IF last'.res.kind = "Enabled" THEN secret ELSE None)]
    ELSE db' = db

C22_MemoryAndStoreAgree ==
    [][ ( /\ last'.op \in TwoFaOps
          /\ AppliesWholeOrNothing
          /\ unwrap(uMem).secret_2fa = db[unwrap(uMem).email].secret_2fa )
        =>  /\ uMem' # None
            /\ unwrap(uMem').email = unwrap(uMem).email
            /\ unwrap(uMem').secret_2fa = db'[unwrap(uMem').email].secret_2fa ]_vars

C22_Witness ==
    /\ pc = "profile"
    /\ last.op = "disable_2fa"
    /\ Called(last, "update_user", FALSE)
    /\ is_2fa_enabled(unwrap(uMem))
    /\ unwrap(uMem).secret_2fa = db[last.email].secret_2fa
====
